---- MODULE Spec2Model ----
(***************************************************************************)
(* Model of the three CI utilities of 13fragments/vllm-models:             *)
(*   .ci/resolve_models.py   (Model Resolver)                              *)
(*   .ci/harvest_licenses.py (License Harvester)                           *)
(*   .ci/summary.py          (Summary Renderer)                            *)
(*                                                                         *)
(* Python values are encoded as follows.                                   *)
(*   - bool / None / the short strings used as flags are the TLA+ strings  *)
(*     "True", "False", "None", "auto", "manual"; Truthy gives Python      *)
(*     truthiness.                                                         *)
(*   - license identifiers are sequences of one-character strings, so that *)
(*     str.lower() and str.strip() are computed; Python None of type       *)
(*     Optional[str] is the one-element sequence NoneStr.                  *)
(*   - revisions, ids and texts are atomic strings ("None" for None).      *)
(***************************************************************************)
EXTENDS Integers, Sequences, FiniteSets, TLC

VARIABLES
    \* ---- resolve_models.py ----
    config,        \* the loaded configuration document
    hub,           \* what the registry may answer (environment)
    r_pc,          \* position of main(): "idle", "start", "loop", "finish", "done"
    r_i,           \* index of the next model of the for loop
    matrix,        \* the list `matrix` of main()
    r_exit,        \* process exit status, -1 while running
    r_stdout,      \* sequence of JSON documents printed to stdout
    r_stderr,      \* sequence of diagnostics printed to stderr
    \* ---- summary.py ----
    s_pc,          \* "idle", "start", "done"
    s_arg,         \* the value of --matrix
    s_exit,
    s_stdout,
    s_stderr,
    \* ---- harvest_licenses.py ----
    h_pc,
    h_env,         \* environment: the repository files and the outcome of each fetch
    license_id,
    upstream_license,
    has_upstream_license,
    upstream_notice,
    has_upstream_notice,
    h_exit,        \* process exit status, -1 while running
    files,         \* files written under the output directory: path -> content
    calls,         \* sequence of the network calls made so far
    project_notice \* the structure of the aggregate NOTICE text

r_vars == <<config, hub, r_pc, r_i, matrix, r_exit, r_stdout, r_stderr>>
s_vars == <<s_pc, s_arg, s_exit, s_stdout, s_stderr>>
h_vars == <<h_pc, h_env, license_id, upstream_license, has_upstream_license,
            upstream_notice, has_upstream_notice, h_exit, files, calls,
            project_notice>>
vars == <<r_vars, s_vars, h_vars>>

----------------------------------------------------------------------------
\* Bounds of the enumerated inputs

\* longest license identifier the registry reports in the single-model runs
MaxLen == 2
\* longest models list of a configuration
MaxModels == 3

----------------------------------------------------------------------------
\* Python values

NoneStr == <<"None">>

Alphabet == {"m", "M", "g", " "}

RECURSIVE StrsOfLen(_)
StrsOfLen(n) ==
    IF n = 0 THEN {<<>>}
    ELSE {Append(s, c) : s \in StrsOfLen(n - 1), c \in Alphabet}

StrsUpTo(n) == UNION {StrsOfLen(k) : k \in 0..n}

\* bool(x) for the flag values
Truthy(x) == x \notin {"False", "None", ""}

\* bool(s) for an Optional[str]
TruthyStr(s) == s # NoneStr /\ s # <<>>

PyBool(b) == IF b THEN "True" ELSE "False"

\* `a and b`: the first operand when it is falsy, else the second
PyAnd(a, b) == IF Truthy(a) THEN b ELSE a

\* `not a`
PyNot(a) == PyBool(~Truthy(a))

\* str.lower(), one character
LowerChar(c) ==
    CASE c = "M" -> "m"
      [] c = "I" -> "i"
      [] c = "T" -> "t"
      [] c = "G" -> "g"
      [] c = "P" -> "p"
      [] c = "L" -> "l"
      [] OTHER -> c

\* str.lower()
Lower(s) == [k \in 1..Len(s) |-> LowerChar(s[k])]

RECURSIVE LStrip(_)
LStrip(s) == IF s # <<>> /\ Head(s) = " " THEN LStrip(Tail(s)) ELSE s

RECURSIVE RStrip(_)
RStrip(s) ==
    IF s # <<>> /\ s[Len(s)] = " " THEN RStrip(SubSeq(s, 1, Len(s) - 1)) ELSE s

\* str.strip()
Strip(s) == RStrip(LStrip(s))

----------------------------------------------------------------------------
\* resolve_models.py

\* variant: lower-cases but does not strip
normalize_spdx_nostrip(lid) ==
    IF ~TruthyStr(lid) THEN NoneStr ELSE Lower(lid)

normalize_spdx(lid) ==
    IF ~TruthyStr(lid) THEN NoneStr ELSE Strip(Lower(lid))

is_permissive(lid, whitelist, override) ==
    IF override # "None" THEN override
    ELSE IF ~TruthyStr(lid) THEN "False"
    ELSE LET normalized == normalize_spdx(lid)
             normalized_whitelist == {normalize_spdx(w) : w \in whitelist}
         IN  PyBool(normalized \in normalized_whitelist)

\* f"hf-{short}"
ImageName(short) == IF short = "m" THEN "hf-m" ELSE "hf-?"

\* base_image.split(":")[-1] if ":" in base_image else "latest"
BaseVersion(base_image) ==
    CASE base_image = "vllm/vllm-openai:v0.6.3" -> "v0.6.3"
      [] OTHER -> "latest"

\* lines 71-73 (and 162-164 of harvest_licenses.py): the license of an info
\* object, the card's `license` key first when the card has one
info_license(answer) ==
    IF answer.card_data = "license" THEN answer.card_license ELSE answer.license

\* lines 66-89: the registry lookup and its fallback.  `answer` is what
\* model_info does: it raises (ok = FALSE) or returns an info object.
lookup(model_config, answer) ==
    IF answer.ok
    THEN [license_id |-> info_license(answer),
              gated      |-> answer.gated,
          revision   |-> IF ~Truthy(model_config.revision) THEN answer.sha
                         ELSE model_config.revision]
    ELSE [license_id |-> NoneStr,
          gated      |-> "False",
          revision   |-> IF ~Truthy(model_config.revision) THEN "main"
                         ELSE model_config.revision]

\* lines 94-98
resolve_permissive(permissive_override, lid, whitelist) ==
    IF permissive_override = "auto"
    THEN is_permissive(lid, whitelist, "None")
    ELSE IF permissive_override # "None" THEN permissive_override ELSE "False"

\* lines 100-104
resolve_gated(gated_override, gated) ==
    IF gated_override = "auto"
    THEN gated
    ELSE IF gated_override # "None" THEN gated_override ELSE "False"

\* variant: the gated flag is not consulted
resolve_build_fat_nogate(permissive, is_gated) == permissive

\* line 107
resolve_build_fat(permissive, is_gated) == PyAnd(permissive, PyNot(is_gated))

\* line 124: license_id or "unknown"
license_field(lid) ==
    IF TruthyStr(lid) THEN lid ELSE <<"u", "n", "k", "n", "o", "w", "n">>

\* resolve_model: [raised |-> TRUE] when a KeyError leaves the function,
\* else the matrix entry.
resolve_model(model_config, defaults, answer) ==
    IF model_config.id = "None" \/ model_config.short = "None"
    THEN [raised |-> TRUE, looked_up |-> FALSE]
    ELSE LET r == lookup(model_config, answer) IN
         IF ~defaults.has_whitelist
         THEN [raised |-> TRUE, looked_up |-> TRUE]
         ELSE LET permissive == resolve_permissive(model_config.permissive,
                                    r.license_id, defaults.spdx_permissive_whitelist)
                  is_gated   == resolve_gated(model_config.gated, r.gated)
                  build_fat  == resolve_build_fat(permissive, is_gated)
              IN  [raised |-> FALSE, looked_up |-> TRUE,
                   entry  |-> [id         |-> model_config.id,
                               short      |-> model_config.short,
                               revision   |-> r.revision,
                               license    |-> license_field(r.license_id),
                               permissive |-> permissive,
                               gated      |-> is_gated,
                               build_fat  |-> build_fat,
                               image      |-> ImageName(model_config.short),
                               base_image |-> defaults.base_image,
                               version    |-> BaseVersion(defaults.base_image),
                               publish_ghcr |-> "True",
                               publish_dh   |-> "True"]]

\* json.dumps / json.loads of the values a matrix entry holds: a bool or None
\* becomes the JSON literal, a str becomes a JSON string
FlagFields == {"permissive", "gated", "build_fat", "publish_ghcr", "publish_dh"}

json_dumps_flag(v) ==
    CASE v = "True"  -> "true"
      [] v = "False" -> "false"
      [] v = "None"  -> "null"
      [] v = "auto"  -> "\"auto\""
      [] v = "manual" -> "\"manual\""

json_loads_flag(t) ==
    CASE t = "true"  -> "True"
      [] t = "false" -> "False"
      [] t = "null"  -> "None"
      [] t = "\"auto\"" -> "auto"
      [] t = "\"manual\"" -> "manual"

json_dumps_entry(e) ==
    [f \in DOMAIN e |-> IF f \in FlagFields THEN json_dumps_flag(e[f]) ELSE e[f]]

json_loads_entry(d) ==
    [f \in DOMAIN d |-> IF f \in FlagFields THEN json_loads_flag(d[f]) ELSE d[f]]

\* json.dumps({"include": matrix}, indent=2)
json_dumps_matrix(m) == [include |-> [k \in 1..Len(m) |-> json_dumps_entry(m[k])]]

\* sys.stderr lines; model is the 1-based position of the model, 0 for none
NoDetail == [license_id |-> NoneStr, gated |-> "", revision |-> ""]
DiagD(msg, model, detail) == [msg |-> msg, model |-> model, detail |-> detail]
Diag(msg, model) == DiagD(msg, model, NoDetail)

\* what model_info may do for one call
Answers ==
    {[ok |-> FALSE]}
    \cup {a \in [ok : {TRUE}, license : hub.top_licenses,
                 card_data : {"None", "empty", "license"},
                 card_license : hub.card_licenses,
                 gated : hub.gated, sha : {"0f3a9c1d"}] :
             a.card_data # "license" => a.card_license = NoneStr}

\* lines 158-166 of main()
r_start ==
    /\ r_pc = "start"
    /\ IF ~config.has_models \/ config.models = <<>>
       THEN /\ r_stderr' = Append(r_stderr, Diag("No models defined in configuration", 0))
            /\ r_exit' = 1
            /\ r_pc' = "done"
       ELSE /\ r_pc' = "loop"
            /\ UNCHANGED <<r_stderr, r_exit>>
    /\ UNCHANGED <<config, hub, r_i, matrix, r_stdout, s_vars, h_vars>>

\* lines 170-176 of main(): one iteration of the for loop
r_loop ==
    /\ r_pc = "loop"
    /\ r_i <= Len(config.models)
    /\ \E answer \in Answers :
         LET model_config == config.models[r_i]
             res == resolve_model(model_config, config.defaults, answer)
             warn == IF ~res.looked_up THEN <<>>
                     ELSE IF answer.ok
                     THEN <<DiagD("License, Gated, Revision", r_i,
                                  lookup(model_config, answer))>>
                     ELSE <<Diag("Warning: Could not fetch model info", r_i)>>
         IN  IF res.raised
             THEN /\ r_stderr' = r_stderr \o warn \o <<Diag("Error resolving model", r_i)>>
                  /\ UNCHANGED matrix
             ELSE /\ matrix' = Append(matrix, res.entry)
                  /\ r_stderr' = r_stderr \o warn
    /\ r_i' = r_i + 1
    /\ UNCHANGED <<config, hub, r_pc, r_exit, r_stdout, s_vars, h_vars>>

\* variant: the matrix is printed without the emptiness test of line 178
r_finish_nocheck ==
    /\ r_pc = "loop"
    /\ r_i > Len(config.models)
    /\ r_stdout' = Append(r_stdout, json_dumps_matrix(matrix))
    /\ r_exit' = 0
    /\ r_pc' = "done"
    /\ UNCHANGED <<config, hub, r_i, matrix, r_stderr, s_vars, h_vars>>

\* lines 178-184 of main()
r_finish ==
    /\ r_pc = "loop"
    /\ r_i > Len(config.models)
    /\ IF matrix = <<>>
       THEN /\ r_stderr' = Append(r_stderr, Diag("No models could be resolved", 0))
            /\ r_exit' = 1
            /\ UNCHANGED r_stdout
       ELSE /\ r_stdout' = Append(r_stdout, json_dumps_matrix(matrix))
            /\ r_exit' = 0
            /\ UNCHANGED r_stderr
    /\ r_pc' = "done"
    /\ UNCHANGED <<config, hub, r_i, matrix, s_vars, h_vars>>

----------------------------------------------------------------------------
\* summary.py

RequiredFields ==
    {"id", "short", "revision", "license", "permissive", "gated",
     "build_fat", "image", "version"}

\* variant: the license test comes before the gated test
fat_decision_swapped(build_fat, gated, permissive) ==
    IF Truthy(build_fat) THEN "Built (permissive, non-gated)"
    ELSE IF ~Truthy(permissive) THEN "Skipped (non-permissive license)"
    ELSE IF Truthy(gated) THEN "Skipped (gated model)"
    ELSE "Skipped (unknown reason)"

\* lines 55-65: the Build Decision line of the fat image
fat_decision(build_fat, gated, permissive) ==
    IF Truthy(build_fat) THEN "Built (permissive, non-gated)"
    ELSE IF Truthy(gated) THEN "Skipped (gated model)"
    ELSE IF ~Truthy(permissive) THEN "Skipped (non-permissive license)"
    ELSE "Skipped (unknown reason)"

\* matrix_entry.get(key, True)
get_default_true(matrix_entry, key) ==
    IF key \in DOMAIN matrix_entry THEN matrix_entry[key] ELSE "True"

\* revision[:7]
Rev7(revision) ==
    CASE revision = "0f3a9c1d" -> "0f3a9c1"
      [] revision = "9e8d7c6b5a" -> "9e8d7c6"
      [] OTHER -> revision

\* lines 73-80 and 82-90: the tags of one variant for the enabled targets
tag_list(matrix_entry, variant) ==
    {[target |-> t, image |-> matrix_entry["image"],
      tag |-> <<x, variant>>] :
        t \in {u \in {"publish_ghcr", "publish_dh"} :
                  Truthy(get_default_true(matrix_entry, u))},
        x \in {matrix_entry["version"], Rev7(matrix_entry["revision"])}}

\* generate_summary: raises KeyError on a missing required field (lines
\* 32-40) and TypeError when revision[:7] is applied to None
generate_summary(matrix_entry) ==
    IF ~(RequiredFields \subseteq DOMAIN matrix_entry)
    THEN [raised |-> "KeyError"]
    ELSE IF matrix_entry["revision"] = "None"
            /\ \E u \in {"publish_ghcr", "publish_dh"} :
                  Truthy(get_default_true(matrix_entry, u))
    THEN [raised |-> "TypeError"]
    ELSE [raised  |-> "no",
          summary |-> [model_id   |-> matrix_entry["id"],
                       slim       |-> "Built",
                       fat        |-> fat_decision(matrix_entry["build_fat"],
                                         matrix_entry["gated"],
                                         matrix_entry["permissive"]),
                       slim_tags  |-> tag_list(matrix_entry, "slim"),
                       fat_tags   |-> IF Truthy(matrix_entry["build_fat"])
                                      THEN tag_list(matrix_entry, "fat") ELSE {},
                       licenses_bundled |-> IF Truthy(matrix_entry["build_fat"])
                                            THEN "Yes (/licenses/)"
                                            ELSE "N/A (slim only)",
                       fat_usage  |-> Truthy(matrix_entry["build_fat"])]]

\* variant: the parse error is reported but sys.exit(1) is missing, and the
\* heading is printed before the fields are read
s_main_noexit ==
    /\ s_pc = "start"
    /\ IF ~s_arg.parseable
       THEN /\ s_stderr' = Append(s_stderr, "Error parsing matrix JSON")
            /\ s_exit' = 0
            /\ UNCHANGED s_stdout
       ELSE LET res == generate_summary(json_loads_entry(s_arg.doc)) IN
            IF res.raised # "no"
            THEN /\ s_stderr' = Append(s_stderr, "Traceback")
                 /\ s_exit' = 1
                 /\ s_stdout' = Append(s_stdout, [model_id |-> "partial"])
            ELSE /\ s_stdout' = Append(s_stdout, res.summary)
                 /\ s_exit' = 0
                 /\ UNCHANGED s_stderr
    /\ s_pc' = "done"
    /\ UNCHANGED <<s_arg, r_vars, h_vars>>

\* main() of summary.py, lines 123-139.  An exception that leaves main()
\* makes the interpreter print the traceback to stderr and exit with 1.
s_main ==
    /\ s_pc = "start"
    /\ IF ~s_arg.parseable
       THEN /\ s_stderr' = Append(s_stderr, "Error parsing matrix JSON")
            /\ s_exit' = 1
            /\ UNCHANGED s_stdout
       ELSE LET res == generate_summary(json_loads_entry(s_arg.doc)) IN
            IF res.raised # "no"
            THEN /\ s_stderr' = Append(s_stderr, "Traceback")
                 /\ s_exit' = 1
                 /\ UNCHANGED s_stdout
            ELSE /\ s_stdout' = Append(s_stdout, res.summary)
                 /\ s_exit' = 0
                 /\ UNCHANGED s_stderr
    /\ s_pc' = "done"
    /\ UNCHANGED <<s_arg, r_vars, h_vars>>

\* The build job of one matrix row invokes the renderer with that row as
\* the --matrix value ("Build matrix entry from resolve_models.py").
ci_summary ==
    /\ s_pc = "idle"
    /\ r_pc = "done"
    /\ r_exit = 0
    /\ \E k \in 1..Len(r_stdout[1].include) :
          s_arg' = [parseable |-> TRUE, doc |-> r_stdout[1].include[k]]
    /\ s_pc' = "start"
    /\ UNCHANGED <<s_exit, s_stdout, s_stderr, r_vars, h_vars>>

----------------------------------------------------------------------------
\* harvest_licenses.py

mit == <<"m", "i", "t">>
apache_2_0 == <<"a", "p", "a", "c", "h", "e", "-", "2", ".", "0">>

\* lines 19-35
SPDX_TEXTS ==
    (apache_2_0 :> "Apache License 2.0 [NOTE: This is a vendored SPDX canonical text.]")
    @@ (mit :> "MIT License [NOTE: This is a vendored SPDX canonical text.]")

\* what a file of the model repository may hold: "None" when the download
\* raises, else the text read, which may be empty
FileContents(filename) ==
    {"None", "",
     IF filename \in {"LICENSE", "LICENSE.md", "LICENSE.txt"}
     THEN "upstream LICENSE text" ELSE "upstream NOTICE text"}

HfCall(filename, result) ==
    [call |-> "hf_hub_download", arg |-> filename, result |-> result]

\* f"[NOTE: This is canonical SPDX text for {spdx_id}. ...]\n\n{response.text}"
CanonicalNetText == "[NOTE: This is canonical SPDX text.] text from spdx.org"

\* fetch_spdx_canonical_text, lines 64-91; net is what requests.get does:
\* "200", "404" or "raise"
fetch_spdx_canonical_text(spdx_id, net) ==
    IF Lower(spdx_id) \in DOMAIN SPDX_TEXTS
    THEN [text |-> SPDX_TEXTS[Lower(spdx_id)], calls |-> <<>>]
    ELSE [text  |-> IF net = "200" THEN CanonicalNetText ELSE "None",
          calls |-> <<[call |-> "requests.get", arg |-> "spdx.org", result |-> net]>>]

\* lines 119-122
notice_location(has_license) ==
    IF has_license THEN "/licenses/model/LICENSE"
    ELSE "/licenses/model/LICENSE (vendored SPDX canonical text)"

\* generate_project_notice, lines 94-136
generate_project_notice(lid, has_license, has_notice) ==
    [infra_license   |-> "CC0-1.0",
     infra_location  |-> "/licenses/CC0",
     model_license   |-> license_field(lid),
     model_location  |-> notice_location(has_license),
     upstream_notice |-> IF has_notice THEN "/licenses/model/NOTICE" ELSE "None",
     base_license    |-> "Apache-2.0"]

WriteFile(path, content) ==
    [q \in DOMAIN files \cup {path} |-> IF q = path THEN content ELSE files[q]]

\* lines 149-156: the output directory tree
h_mkdir ==
    /\ h_pc = "mkdir"
    /\ IF h_env.can_mkdir
       THEN /\ h_pc' = "info"
            /\ UNCHANGED h_exit
       ELSE /\ h_pc' = "done"
            /\ h_exit' = 1
    /\ UNCHANGED <<h_env, license_id, upstream_license, has_upstream_license,
                   upstream_notice, has_upstream_notice, files, calls,
                   project_notice, r_vars, s_vars>>

\* lines 158-166: the license identifier from the registry
h_info ==
    /\ h_pc = "info"
    /\ IF ~TruthyStr(license_id)
       THEN \E answer \in Answers :
              /\ license_id' = IF answer.ok THEN info_license(answer) ELSE license_id
              /\ calls' = Append(calls,
                    [call |-> "model_info", arg |-> "model",
                     result |-> IF answer.ok THEN "ok" ELSE "raise"])
       ELSE UNCHANGED <<license_id, calls>>
    /\ h_pc' = "license_1"
    /\ UNCHANGED <<h_env, upstream_license, has_upstream_license, upstream_notice,
                   has_upstream_notice, h_exit, files, project_notice,
                   r_vars, s_vars>>

\* line 169
h_license_1 ==
    /\ h_pc = "license_1"
    /\ \E c \in FileContents("LICENSE") :
          /\ upstream_license' = c
          /\ calls' = Append(calls, HfCall("LICENSE", c))
    /\ h_pc' = "license_2"
    /\ UNCHANGED <<h_env, license_id, has_upstream_license, upstream_notice,
                   has_upstream_notice, h_exit, files, project_notice,
                   r_vars, s_vars>>

\* the guard of lines 170 and 173: `if not upstream_license`
try_next(content) == ~Truthy(content)

\* lines 170-172
h_license_2 ==
    /\ h_pc = "license_2"
    /\ IF try_next(upstream_license)
       THEN \E c \in FileContents("LICENSE.md") :
              /\ upstream_license' = c
              /\ calls' = Append(calls, HfCall("LICENSE.md", c))
       ELSE UNCHANGED <<upstream_license, calls>>
    /\ h_pc' = "license_3"
    /\ UNCHANGED <<h_env, license_id, has_upstream_license, upstream_notice,
                   has_upstream_notice, h_exit, files, project_notice,
                   r_vars, s_vars>>

\* lines 173-174
h_license_3 ==
    /\ h_pc = "license_3"
    /\ IF try_next(upstream_license)
       THEN \E c \in FileContents("LICENSE.txt") :
              /\ upstream_license' = c
              /\ calls' = Append(calls, HfCall("LICENSE.txt", c))
       ELSE UNCHANGED <<upstream_license, calls>>
    /\ h_pc' = "vendor"
    /\ UNCHANGED <<h_env, license_id, has_upstream_license, upstream_notice,
                   has_upstream_notice, h_exit, files, project_notice,
                   r_vars, s_vars>>

\* line 176: has_upstream_license = upstream_license is not None
is_upstream(content) == content # "None"

\* lines 176-181
h_vendor ==
    /\ h_pc = "vendor"
    /\ has_upstream_license' = is_upstream(upstream_license)
    /\ IF ~Truthy(upstream_license) /\ TruthyStr(license_id)
       THEN \E net \in {"200", "404", "raise"} :
              LET res == fetch_spdx_canonical_text(license_id, net) IN
              /\ upstream_license' = res.text
              /\ calls' = calls \o res.calls
       ELSE UNCHANGED <<upstream_license, calls>>
    /\ h_pc' = "write_license"
    /\ UNCHANGED <<h_env, license_id, upstream_notice, has_upstream_notice,
                   h_exit, files, project_notice, r_vars, s_vars>>

\* lines 183-189
h_write_license ==
    /\ h_pc = "write_license"
    /\ files' = IF Truthy(upstream_license)
                THEN WriteFile("model/LICENSE", upstream_license)
                ELSE files
    /\ h_pc' = "notice_1"
    /\ UNCHANGED <<h_env, license_id, upstream_license, has_upstream_license,
                   upstream_notice, has_upstream_notice, h_exit, calls,
                   project_notice, r_vars, s_vars>>

\* lines 192-204: the three NOTICE candidates, then the model NOTICE file
h_notice ==
    /\ h_pc = "notice_1"
    /\ \E c1 \in FileContents("NOTICE"), c2 \in FileContents("NOTICE.md"),
          c3 \in FileContents("NOTICE.txt") :
          LET n1 == c1
              n2 == IF try_next(n1) THEN c2 ELSE n1
              n3 == IF try_next(n2) THEN c3 ELSE n2
              log == <<HfCall("NOTICE", c1)>>
                     \o (IF try_next(n1) THEN <<HfCall("NOTICE.md", c2)>> ELSE <<>>)
                     \o (IF try_next(n2) THEN <<HfCall("NOTICE.txt", c3)>> ELSE <<>>)
          IN  /\ upstream_notice' = n3
              /\ has_upstream_notice' = is_upstream(n3)
              /\ calls' = calls \o log
              /\ files' = IF Truthy(n3) THEN WriteFile("model/NOTICE", n3) ELSE files
    /\ h_pc' = "cc0"
    /\ UNCHANGED <<h_env, license_id, upstream_license, has_upstream_license,
                   h_exit, project_notice, r_vars, s_vars>>

\* lines 206-213: the infrastructure license
h_cc0 ==
    /\ h_pc = "cc0"
    /\ files' = IF h_env.cc0_source_exists
                THEN WriteFile("CC0", "CC0 1.0 Universal")
                ELSE files
    /\ h_pc' = "project_notice"
    /\ UNCHANGED <<h_env, license_id, upstream_license, has_upstream_license,
                   upstream_notice, has_upstream_notice, h_exit, calls,
                   project_notice, r_vars, s_vars>>

\* lines 215-224
h_project_notice ==
    /\ h_pc = "project_notice"
    /\ project_notice' = generate_project_notice(license_id, has_upstream_license,
                                                 has_upstream_notice)
    /\ files' = WriteFile("NOTICE", project_notice')
    /\ h_pc' = "oci"
    /\ UNCHANGED <<h_env, license_id, upstream_license, has_upstream_license,
                   upstream_notice, has_upstream_notice, h_exit, calls,
                   r_vars, s_vars>>

\* lines 226-237
h_oci ==
    /\ h_pc = "oci"
    /\ files' = WriteFile("oci-labels.json",
                    [licenses |-> <<"CC0-1.0", license_field(license_id), "Apache-2.0">>,
                     source   |-> "https://github.com/13fragments/vllm-models",
                     url      |-> "https://huggingface.co/model"])
    /\ h_exit' = 0
    /\ h_pc' = "done"
    /\ UNCHANGED <<h_env, license_id, upstream_license, has_upstream_license,
                   upstream_notice, has_upstream_notice, calls, project_notice,
                   r_vars, s_vars>>

----------------------------------------------------------------------------
\* Enumerated inputs

Ids == <<"org/a", "org/b", "org/c", "org/d", "org/e">>

OverrideValues == {"True", "False", "auto", "None"}

\* ModelInfo.gated as the registry reports it
GatedValues == {"False", "True", "auto", "manual", "None"}

\* the model entry at position k of the models list
ModelConfigs(k, revisions, overrides) ==
    [id : {Ids[k]}, short : {"m", "None"}, revision : revisions,
     permissive : overrides, gated : overrides]

Whitelists ==
    {{<<"m">>}, {<<" ", "M">>, <<"g", "g">>}, {<<>>, <<"g">>}, {}}

DefaultsSet(whitelists) ==
    [has_whitelist : {TRUE}, spdx_permissive_whitelist : whitelists,
     base_image : {"vllm/vllm-openai:v0.6.3"}]
    \cup [has_whitelist : {FALSE}, spdx_permissive_whitelist : {{}},
          base_image : {"vllm/vllm-openai:v0.6.3"}]

RECURSIVE ModelLists(_, _, _)
ModelLists(n, revisions, overrides) ==
    IF n = 0 THEN {<<>>}
    ELSE {Append(l, c) : l \in ModelLists(n - 1, revisions, overrides),
                         c \in ModelConfigs(n, revisions, overrides)}

IdleHub == [top_licenses |-> {NoneStr}, card_licenses |-> {NoneStr}, gated |-> {"False"}]
IdleConfig == [has_models |-> FALSE, models |-> <<>>,
               defaults |-> [has_whitelist |-> FALSE, spdx_permissive_whitelist |-> {},
                             base_image |-> "vllm/vllm-openai:v0.6.3"]]
IdleNotice == generate_project_notice(NoneStr, FALSE, FALSE)

r_idle ==
    /\ config = IdleConfig
    /\ hub = IdleHub
    /\ r_pc = "idle" /\ r_i = 1 /\ matrix = <<>> /\ r_exit = -1
    /\ r_stdout = <<>> /\ r_stderr = <<>>

s_idle ==
    /\ s_pc = "idle" /\ s_arg = [parseable |-> FALSE, doc |-> <<>>]
    /\ s_exit = -1 /\ s_stdout = <<>> /\ s_stderr = <<>>

h_idle ==
    /\ h_pc = "idle" /\ h_env = [can_mkdir |-> TRUE, cc0_source_exists |-> TRUE]
    /\ license_id = NoneStr /\ upstream_license = "None"
    /\ has_upstream_license = FALSE /\ upstream_notice = "None"
    /\ has_upstream_notice = FALSE /\ h_exit = -1 /\ files = <<>>
    /\ calls = <<>> /\ project_notice = IdleNotice

\* One-model runs of the Resolver over every override, every revision kind
\* and every registry answer, each row then rendered.
InitPolicy ==
    /\ config \in [has_models : {TRUE},
                   models : ModelLists(1, {"None", "9e8d7c6b5a"}, OverrideValues),
                   defaults : DefaultsSet(Whitelists)]
    /\ hub = [top_licenses |-> {NoneStr, <<"g">>},
              card_licenses |-> StrsUpTo(MaxLen) \cup {NoneStr},
              gated |-> GatedValues]
    /\ r_pc = "start" /\ r_i = 1 /\ matrix = <<>> /\ r_exit = -1
    /\ r_stdout = <<>> /\ r_stderr = <<>>
    /\ s_idle
    /\ h_idle

NextPolicy == r_start \/ r_loop \/ r_finish \/ ci_summary \/ s_main

SpecPolicy == InitPolicy /\ [][NextPolicy]_vars

\* Runs of the Resolver over configurations of up to MaxModels models,
\* with the models list possibly missing.
InitMain ==
    /\ config \in [has_models : BOOLEAN,
                   models : UNION {ModelLists(n, {"None", "9e8d7c6b5a"}, {"auto"}) :
                                      n \in 0..MaxModels},
                   defaults : DefaultsSet({{<<"m">>}})]
    /\ hub = [top_licenses |-> {NoneStr},
              card_licenses |-> {NoneStr, <<"m">>},
              gated |-> {"False", "manual"}]
    /\ r_pc = "start" /\ r_i = 1 /\ matrix = <<>> /\ r_exit = -1
    /\ r_stdout = <<>> /\ r_stderr = <<>>
    /\ s_idle
    /\ h_idle

NextMain == r_start \/ r_loop \/ r_finish

SpecMain == InitMain /\ [][NextMain]_vars

\* Runs of the Summary Renderer over any --matrix value: unparseable text,
\* or a JSON object holding any subset of the fields.
SummaryFields == RequiredFields \cup {"publish_ghcr", "publish_dh"}

FullDocs ==
    [id : {"org/a"}, short : {"m"}, revision : {"0f3a9c1d", "None"},
     license : {mit}, permissive : {"true", "false"}, gated : {"true", "false"},
     build_fat : {"true", "false"}, image : {"hf-m"}, version : {"v0.6.3"},
     publish_ghcr : {"true", "false"}, publish_dh : {"true"}]

MatrixArgs ==
    {[parseable |-> FALSE, doc |-> <<>>]}
    \cup {[parseable |-> TRUE, doc |-> [f \in D |-> d[f]]] :
             D \in SUBSET SummaryFields, d \in FullDocs}

InitSummary ==
    /\ s_pc = "start" /\ s_arg \in MatrixArgs
    /\ s_exit = -1 /\ s_stdout = <<>> /\ s_stderr = <<>>
    /\ r_idle
    /\ h_idle

NextSummary == s_main

SpecSummary == InitSummary /\ [][NextSummary]_vars

\* Runs of the Harvester over the --license values, the state of the
\* repository checkout and every outcome of every fetch.
gpl == <<"g", "p", "l">>

HarvestLicenseIds == {NoneStr, <<>>, mit, <<"M", "I", "T">>, gpl}

InitHarvest ==
    /\ h_pc = "mkdir"
    /\ h_env \in [can_mkdir : BOOLEAN, cc0_source_exists : BOOLEAN]
    /\ license_id \in HarvestLicenseIds
    /\ upstream_license = "None" /\ has_upstream_license = FALSE
    /\ upstream_notice = "None" /\ has_upstream_notice = FALSE
    /\ h_exit = -1 /\ files = <<>> /\ calls = <<>>
    /\ project_notice = IdleNotice
    /\ config = IdleConfig
    /\ hub = [top_licenses |-> {NoneStr, gpl},
              card_licenses |-> {NoneStr, mit},
              gated |-> {"False"}]
    /\ r_pc = "idle" /\ r_i = 1 /\ matrix = <<>> /\ r_exit = -1
    /\ r_stdout = <<>> /\ r_stderr = <<>>
    /\ s_idle

NextHarvest ==
    \/ h_mkdir \/ h_info \/ h_license_1 \/ h_license_2 \/ h_license_3
    \/ h_vendor \/ h_write_license \/ h_notice \/ h_cc0 \/ h_project_notice
    \/ h_oci

SpecHarvest == InitHarvest /\ [][NextHarvest]_vars

----------------------------------------------------------------------------
\* Properties of the Model Resolver

\* position in the models list of the model an entry was made from
ModelIndex(id) == CHOOSE k \in 1..Len(config.models) : config.models[k].id = id

\* the lookup result that line 82 logged for model k, if the lookup succeeded
LookupLogged(k) ==
    \E n \in 1..Len(r_stderr) :
        r_stderr[n].model = k /\ r_stderr[n].msg = "License, Gated, Revision"

LoggedLookup(k) ==
    r_stderr[CHOOSE n \in 1..Len(r_stderr) :
                r_stderr[n].model = k /\ r_stderr[n].msg = "License, Gated, Revision"].detail

LookupFailed(k) ==
    \E n \in 1..Len(r_stderr) :
        r_stderr[n].model = k /\ r_stderr[n].msg = "Warning: Could not fetch model info"

\* C1: in every emitted Matrix Entry, build_fat is a boolean and is true
\* exactly when the entry's permissive field is true and its gated field is
\* false (Python truth values), for every override and registry outcome.
C1_BuildFatIsPermissiveAndNotGated ==
    \A j \in 1..Len(matrix) :
        /\ matrix[j].build_fat \in {"True", "False"}
        /\ matrix[j].build_fat = "True"
              <=> (matrix[j].permissive \notin {"False", "None"}
                   /\ matrix[j].gated \in {"False", "None"})

\* an entry of a gated model with a whitelisted license, both flags on "auto"
C1_Witness ==
    /\ r_pc = "done"
    /\ Len(matrix) = 1
    /\ config.models[1].permissive = "auto"
    /\ config.models[1].gated = "auto"
    /\ matrix[1].permissive = "True"
    /\ matrix[1].gated = "manual"
    /\ matrix[1].build_fat = "False"

FloatingRefs == {"main", "master", "latest", "HEAD"}

\* C2: every emitted Matrix Entry has a non-null, non-empty license and a
\* concrete revision: not null and not a floating reference such as a
\* branch name, also after a failed registry lookup.
C2_LicenseSetAndRevisionConcrete ==
    \A j \in 1..Len(matrix) :
        /\ matrix[j].license # NoneStr
        /\ matrix[j].license # <<>>
        /\ matrix[j].revision \notin {"None", ""}
        /\ matrix[j].revision \notin FloatingRefs

\* a whitelist entry matches a license when both, lower-cased and stripped,
\* are the same identifier; an empty entry names no license
WhitelistMatch(lid, whitelist) ==
    /\ lid # NoneStr
    /\ lid # <<>>
    /\ \E w \in whitelist : w # <<>> /\ Strip(Lower(w)) = Strip(Lower(lid))

\* C3: the permissive flag of every entry follows the override rule: an
\* explicit true/false verbatim; "auto" true exactly when the license the
\* registry reported, lower-cased and stripped, is a whitelist entry
\* normalized the same way (false for no license or a failed lookup);
\* absent gives false.
C3_PermissiveFollowsOverrideRule ==
    \A j \in 1..Len(matrix) :
        LET k == ModelIndex(matrix[j].id)
            o == config.models[k].permissive
            p == matrix[j].permissive
        IN  /\ o = "True" => p = "True"
            /\ o = "False" => p = "False"
            /\ o = "None" => p = "False"
            /\ o = "auto" =>
                 /\ p \in {"True", "False"}
                 /\ p = "True" <=>
                       /\ LookupLogged(k)
                       /\ WhitelistMatch(LoggedLookup(k).license_id,
                                         config.defaults.spdx_permissive_whitelist)

\* "M " is reported and the whitelist holds "m"
C3_Witness ==
    /\ Len(matrix) = 1
    /\ config.models[1].permissive = "auto"
    /\ LookupLogged(1)
    /\ LoggedLookup(1).license_id = <<"M", " ">>
    /\ config.defaults.spdx_permissive_whitelist = {<<"m">>}
    /\ matrix[1].permissive = "True"

\* the models whose resolve_model call raises: a missing id or short key, or
\* a defaults section without the whitelist
Raises(k) ==
    \/ config.models[k].id = "None"
    \/ config.models[k].short = "None"
    \/ ~config.defaults.has_whitelist

\* ids of the models before position n that did not raise, in order
RECURSIVE ResolvedIds(_)
ResolvedIds(n) ==
    IF n = 0 THEN <<>>
    ELSE IF Raises(n) THEN ResolvedIds(n - 1)
    ELSE Append(ResolvedIds(n - 1), config.models[n].id)

\* C4: the models are processed in order and the matrix holds exactly one
\* entry per model whose resolve_model call did not raise, in configuration
\* order; a failed lookup alone yields an entry with the fallback values;
\* the run exits non-zero exactly when the models list is missing or empty
\* or no model produced an entry, and then prints no matrix.
C4_OneEntryPerResolvedModel ==
    /\ r_pc \in {"loop", "done"} /\ config.has_models /\ config.models # <<>>
          => /\ [j \in 1..Len(matrix) |-> matrix[j].id] = ResolvedIds(r_i - 1)
             /\ \A k \in 1..(r_i - 1) :
                   LookupFailed(k) /\ ~Raises(k) =>
                      \E j \in 1..Len(matrix) :
                          /\ matrix[j].id = config.models[k].id
                          /\ matrix[j].license = <<"u", "n", "k", "n", "o", "w", "n">>
                          /\ matrix[j].revision =
                                IF config.models[k].revision = "None" THEN "main"
                                ELSE config.models[k].revision
                          /\ config.models[k].gated = "auto" => matrix[j].gated = "False"
                          /\ config.models[k].permissive = "auto"
                                => matrix[j].permissive = "False"
    /\ r_pc = "done"
          => /\ r_exit \in {0, 1}
             /\ r_exit # 0 <=> (~config.has_models \/ config.models = <<>>
                                \/ matrix = <<>>)
             /\ r_exit # 0 => r_stdout = <<>>
             /\ r_exit = 0 =>
                   /\ Len(r_stdout) = 1
                   /\ [j \in 1..Len(matrix) |-> r_stdout[1].include[j].id]
                         = ResolvedIds(Len(config.models))

\* three models: the lookup of the first fails, the second raises, the
\* third resolves; the matrix holds the first and the third
C4_Witness ==
    /\ r_pc = "done"
    /\ r_exit = 0
    /\ Len(config.models) = 3
    /\ LookupFailed(1) /\ ~Raises(1)
    /\ Raises(2)
    /\ Len(matrix) = 2
    /\ matrix[1].id = "org/a"
    /\ matrix[2].id = "org/c"

----------------------------------------------------------------------------
\* Properties of the Summary Renderer

EntryOf(id) == matrix[CHOOSE j \in 1..Len(matrix) : matrix[j].id = id]

\* C8: for an entry emitted by the Resolver and rendered, the fat image is
\* reported built exactly when build_fat is true; when skipped, the reason
\* is the gated one whenever gated is true, else the non-permissive one;
\* the unknown-reason line never appears.
C8_FatReportMatchesEntry ==
    \A n \in 1..Len(s_stdout) :
        LET e == EntryOf(s_stdout[n].model_id)
            line == s_stdout[n].fat
        IN  /\ line = "Built (permissive, non-gated)" <=> e.build_fat = "True"
            /\ e.build_fat # "True" =>
                  line = IF e.gated \notin {"False", "None"}
                         THEN "Skipped (gated model)"
                         ELSE "Skipped (non-permissive license)"
            /\ line # "Skipped (unknown reason)"

\* a gated model whose license is not permissive either
C8_Witness ==
    /\ s_pc = "done"
    /\ Len(s_stdout) = 1
    /\ Len(matrix) = 1
    /\ matrix[1].permissive = "False"
    /\ matrix[1].gated = "manual"
    /\ s_stdout[1].fat = "Skipped (gated model)"

NineFields ==
    {"id", "short", "revision", "license", "permissive", "gated",
     "build_fat", "image", "version"}

Malformed(arg) == ~arg.parseable \/ ~(NineFields \subseteq DOMAIN arg.doc)

\* C9: on malformed input (unparseable JSON, or an entry missing one of the
\* nine required fields) the renderer ends with a non-zero status and a
\* diagnostic on stderr, and prints nothing on stdout.
C9_MalformedInputIsFatal ==
    s_pc = "done" /\ Malformed(s_arg) =>
        /\ s_exit > 0
        /\ s_stderr # <<>>
        /\ s_stdout = <<>>

\* an entry that lacks only the gated field
C9_Witness ==
    /\ s_pc = "done"
    /\ s_arg.parseable
    /\ DOMAIN s_arg.doc = SummaryFields \ {"gated"}
    /\ s_exit = 1

----------------------------------------------------------------------------
\* Properties of the License Harvester

LicenseCandidates == {"LICENSE", "LICENSE.md", "LICENSE.txt"}

\* positions in `calls` of the downloads of LICENSE candidates
LicenseCalls ==
    {n \in 1..Len(calls) :
        calls[n].call = "hf_hub_download" /\ calls[n].arg \in LicenseCandidates}

\* a candidate was found when its download returned the file's text
Found(n) == calls[n].result # "None"

CanonicalTexts == {SPDX_TEXTS[x] : x \in DOMAIN SPDX_TEXTS} \cup {CanonicalNetText}

Written(path) == path \in DOMAIN files

\* C5: the candidates are tried in the order LICENSE, LICENSE.md,
\* LICENSE.txt; no candidate is fetched after one was found and the first
\* found one is what is written; canonical text is used only when no
\* candidate was found and a license identifier is known; a vendored
\* identifier gives the vendored text without any fetch of canonical text.
C5_OrderedFallbackChain ==
    /\ \A a, b \in LicenseCalls : a < b => ~Found(a)
    /\ h_pc \in {"notice_1", "cc0", "project_notice", "oci"} \/ (h_pc = "done" /\ h_exit = 0)
          => /\ \A a \in LicenseCalls :
                   Found(a) => /\ Written("model/LICENSE")
                               /\ files["model/LICENSE"] = calls[a].result
             /\ Written("model/LICENSE") /\ files["model/LICENSE"] \in CanonicalTexts
                   => /\ \A a \in LicenseCalls : ~Found(a)
                      /\ TruthyStr(license_id)
             /\ (\A a \in LicenseCalls : ~Found(a))
                /\ TruthyStr(license_id) /\ Lower(license_id) \in DOMAIN SPDX_TEXTS
                   => /\ Written("model/LICENSE")
                      /\ files["model/LICENSE"] = SPDX_TEXTS[Lower(license_id)]
                      /\ \A n \in 1..Len(calls) : calls[n].call # "requests.get"

\* C6: in every bundle with a model LICENSE, the aggregate NOTICE marks the
\* location as vendored substitute text exactly when the content written
\* is canonical substitute text, and as the model's own file exactly when
\* the content was fetched from the upstream repository.
C6_NoticeAnnotationMatchesContent ==
    Written("NOTICE") /\ Written("model/LICENSE") =>
        /\ files["NOTICE"].model_location
              = "/licenses/model/LICENSE (vendored SPDX canonical text)"
              <=> files["model/LICENSE"] \in CanonicalTexts
        /\ files["NOTICE"].model_location = "/licenses/model/LICENSE"
              <=> files["model/LICENSE"] = "upstream LICENSE text"

\* C7: a run that completes leaves exactly one CC0, one NOTICE and one
\* oci-labels.json, and at most a model/LICENSE and a model/NOTICE besides;
\* the CC0 file is there whatever the fetches and the environment did.
C7_BundleHasInfrastructureLicense ==
    h_pc = "done" /\ h_exit = 0 =>
        /\ {"CC0", "NOTICE", "oci-labels.json"} \subseteq DOMAIN files
        /\ DOMAIN files \subseteq
              {"CC0", "NOTICE", "oci-labels.json", "model/LICENSE", "model/NOTICE"}

\* C10: when the aggregate NOTICE names /licenses/model/LICENSE as the
\* location of the model's license, the run wrote model/LICENSE.
C10_NoticeLocationIsWritten ==
    Written("NOTICE")
    /\ files["NOTICE"].model_location \in
          {"/licenses/model/LICENSE",
           "/licenses/model/LICENSE (vendored SPDX canonical text)"}
       => Written("model/LICENSE")

====
